---- MODULE Spec2Model ----
(***************************************************************************)
(* State-machine model of the metrics aggregation and reporting engine of  *)
(* jwt-pizza-service (src/src/metrics.js, class Metrics).                  *)
(*                                                                         *)
(* JavaScript runs each callback to completion, so one action is one       *)
(* event-loop turn: a recording call, a 'finish' callback, the timer       *)
(* callback (sendMetrics up to its first real suspension, the fetch), and  *)
(* the continuations that run when the fetch or response.text() settles.   *)
(* Times are milliseconds as returned by Date.now().                       *)
(***************************************************************************)
EXTENDS Integers, Sequences, FiniteSets, TLC

\* ------------------------------------------------------------------ bounds
MaxOps == 2          \* recording calls (requests, auth, activity, pizza) per behaviour
MaxCycles == 2       \* sendMetrics invocations per behaviour
WinMaxOps == 208     \* recording calls per behaviour of SpecWin
WinLatMod == 3       \* SpecWin cycles its latencies through 0..WinLatMod-1
WinTickEvery == 52   \* SpecWin lets the timer come due after this many recording calls
MaxNameParts == 2    \* words per metric name given to getMetricUnit
MaxWindowLen == 3    \* samples per array given to getAverageLatency
MaxSample == 3       \* largest sample in such an array
MaxPushes == 102     \* pizzaPurchase calls per behaviour of SpecFifo

\* ------------------------------------------------------- program constants
HardCap == 100                 \* metrics.js:55, metrics.js:102
RetentionCap == 50             \* metrics.js:326-330
ExpiryWindow == 5 * 60 * 1000  \* metrics.js:134
Interval == 30000              \* metrics.js:342

\* ------------------------------------------------------------ input sets
NoUser == "none"                          \* a falsy userId (null, undefined)
Users == {"u1", "u2"}
KnownMethods == {"GET", "POST", "PUT", "DELETE"}
Methods == KnownMethods \cup {"PATCH"}
Revenues == {0, 999}                      \* pizzaPurchase revenue, in hundredths
CpuValues == {25}                         \* getCpuUsagePercentage results
MemValues == {42}                         \* getMemoryUsagePercentage results
Statuses == {200, 500}                    \* HTTP status of the collector's response
Source == "jwt-pizza-service"             \* config.metrics.source
\* instants at which the model lets code observe Date.now()
TimePoints == {Interval, ExpiryWindow + Interval - 1, ExpiryWindow + Interval,
               ExpiryWindow + Interval + 1}

VARIABLES
    httpRequestCounts,  \* this.httpRequestCounts: key -> count
    authAttempts,       \* this.authAttempts
    activeUsers,        \* this.activeUsers: Map userId -> last activity time
    pizzaMetrics,       \* this.pizzaMetrics
    latencyMetrics,     \* this.latencyMetrics: two arrays of samples
    now,                \* Date.now()
    nextTick,           \* when the setInterval timer is next due
    pending,            \* startTime of each request whose 'finish' has not fired
    cycles,             \* every sendMetrics invocation so far, in start order: its position
                        \* (pc), its metrics object, the ids it logged as expired, the
                        \* Date.now() its payload was built at, how its delivery ended, the
                        \* state of the promise it returned, and history (period, seen,
                        \* resets = the calls of resetPeriodMetrics it made) for the
                        \* properties
    recorded,           \* history: requestTracker calls per method since the last reset
    sinceSnapshot,      \* history: requestTracker calls since the last snapshot
    nOps,               \* history: number of recording calls so far
    probe               \* a function of the class applied on its own: its name, its
                        \* argument and, once it has returned, its result

vars == <<httpRequestCounts, authAttempts, activeUsers, pizzaMetrics,
          latencyMetrics, now, nextTick, pending, cycles, recorded,
          sinceSnapshot, nOps, probe>>

\* ---------------------------------------------------------------- helpers
Min(a, b) == IF a < b THEN a ELSE b

RECURSIVE SumSeq(_)
SumSeq(s) == IF s = <<>> THEN 0 ELSE Head(s) + SumSeq(Tail(s))

\* Array.prototype.slice(-n)
LastN(s, n) == SubSeq(s, Len(s) - Min(Len(s), n) + 1, Len(s))

RemoveAt(s, i) == SubSeq(s, 1, i - 1) \o SubSeq(s, i + 1, Len(s))

\* Map.prototype.set / Map.prototype.delete
MapSet(m, k, v) == [x \in DOMAIN m \cup {k} |-> IF x = k THEN v ELSE m[x]]
MapDelete(m, k) == [x \in DOMAIN m \ {k} |-> m[x]]

EmptyMap == [x \in {} |-> 0]

ZeroHttpRequestCounts ==
    [k \in {"total"} \cup KnownMethods |-> 0]
ZeroAuthAttempts == [successful |-> 0, failed |-> 0]
ZeroPizzaMetrics == [sold |-> 0, failures |-> 0, revenue |-> 0]
ZeroRecorded == [m \in Methods |-> 0]

\* CountRequest leaving a request of an unknown method out of total
CountRequestSkippingUnknown(h, method) ==
    IF method \in KnownMethods
    THEN [h EXCEPT !["total"] = @ + 1, ![method] = @ + 1]
    ELSE h

\* CountRequest without the per-method increment
CountRequestTotalOnly(h, method) == [h EXCEPT !["total"] = @ + 1]

\* total++ ; counts[method] = (counts[method] || 0) + 1
CountRequest(h, method) ==
    LET h1 == [h EXCEPT !["total"] = @ + 1]
    IN  [k \in DOMAIN h1 \cup {method} |->
            IF k = method
            THEN (IF k \in DOMAIN h1 THEN h1[k] ELSE 0) + 1
            ELSE h1[k]]

\* AppendLatency dropping the sample just pushed, pop(), instead of the oldest
AppendLatencyDropNewest(w, latency) ==
    LET w1 == Append(w, latency)
    IN  IF Len(w1) > HardCap THEN SubSeq(w1, 1, HardCap) ELSE w1

\* AppendLatency without the eviction
AppendLatencyNoEvict(w, latency) == Append(w, latency)

\* push(latency); if (length > 100) shift()
AppendLatency(w, latency) ==
    LET w1 == Append(w, latency)
    IN  IF Len(w1) > HardCap THEN Tail(w1) ELSE w1

\* Math.round rounding an exact half towards zero (for num >= 0)
MathRoundHalfDown(num, den) ==
    LET q == num \div den
        r == num % den
    IN  IF 2 * r > den THEN q + 1 ELSE q

\* Math.round(num / den) for den > 0: the nearest integer, an exact half going up
MathRound(num, den) ==
    LET q == num \div den
        r == num % den
    IN  IF 2 * r >= den THEN q + 1 ELSE q

\* Math.round(sum / length), 0 for an empty array
getAverageLatency(latencies) ==
    IF Len(latencies) = 0 THEN 0
    ELSE MathRound(SumSeq(latencies), Len(latencies))

\* ------------------------------------------------------------------- Init
Constructed ==
    /\ httpRequestCounts = ZeroHttpRequestCounts
    /\ authAttempts = ZeroAuthAttempts
    /\ activeUsers = EmptyMap
    /\ pizzaMetrics = ZeroPizzaMetrics
    /\ latencyMetrics = [serviceLatencies |-> <<>>, pizzaLatencies |-> <<>>]
    /\ now = 0
    /\ nextTick = Interval
    /\ pending = <<>>
    /\ cycles = <<>>
    /\ recorded = ZeroRecorded
    /\ sinceSnapshot = 0
    /\ nOps = 0

\* no function is applied on its own
NoProbe == [fn |-> "none"]

Init == Constructed /\ probe = NoProbe

\* ------------------------------------------------------ recording actions
\* requestTracker answering a request of an unknown method itself: nothing is
\* counted and next() is not called
requestTrackerRejectingUnknown(method, userId) ==
    IF method \in KnownMethods
    THEN /\ pending = <<>>
         /\ httpRequestCounts' = CountRequest(httpRequestCounts, method)
         /\ activeUsers' = IF userId # NoUser THEN MapSet(activeUsers, userId, now)
                           ELSE activeUsers
         /\ pending' = Append(pending, now)
         /\ recorded' = [recorded EXCEPT ![method] = @ + 1]
         /\ sinceSnapshot' = sinceSnapshot + 1
         /\ nOps' = nOps + 1
         /\ UNCHANGED <<authAttempts, pizzaMetrics, latencyMetrics, now, nextTick, cycles>>
    ELSE /\ pending = <<>>
         /\ nOps' = nOps + 1
         /\ UNCHANGED <<httpRequestCounts, authAttempts, activeUsers, pizzaMetrics,
                        latencyMetrics, now, nextTick, pending, cycles, recorded,
                        sinceSnapshot>>

\* the Express middleware, up to next(); the model follows the response of one
\* request at a time, so a request arrives only when none is unfinished
requestTracker(method, userId) ==
    /\ pending = <<>>
    /\ httpRequestCounts' = CountRequest(httpRequestCounts, method)
    /\ activeUsers' = IF userId # NoUser THEN MapSet(activeUsers, userId, now)
                      ELSE activeUsers
    /\ pending' = Append(pending, now)
    /\ recorded' = [recorded EXCEPT ![method] = @ + 1]
    /\ sinceSnapshot' = sinceSnapshot + 1
    /\ nOps' = nOps + 1
    /\ UNCHANGED <<authAttempts, pizzaMetrics, latencyMetrics, now, nextTick, cycles>>

\* the res.on('finish') callback of the i-th unfinished request
finish(i) ==
    /\ i \in 1..Len(pending)
    /\ latencyMetrics' = [latencyMetrics EXCEPT !.serviceLatencies =
                              AppendLatency(@, now - pending[i])]
    /\ pending' = RemoveAt(pending, i)
    /\ UNCHANGED <<httpRequestCounts, authAttempts, activeUsers, pizzaMetrics,
                   now, nextTick, cycles, recorded, sinceSnapshot, nOps>>

\* recordAuthAttempt refreshing the activity of the user on a failed attempt too
recordAuthAttemptTouchingAlways(success, userId) ==
    /\ authAttempts' = IF success
                       THEN [authAttempts EXCEPT !.successful = @ + 1]
                       ELSE [authAttempts EXCEPT !.failed = @ + 1]
    /\ activeUsers' = IF userId # NoUser
                      THEN MapSet(activeUsers, userId, now)
                      ELSE activeUsers
    /\ nOps' = nOps + 1
    /\ UNCHANGED <<httpRequestCounts, pizzaMetrics, latencyMetrics, now, nextTick,
                   pending, cycles, recorded, sinceSnapshot>>

recordAuthAttempt(success, userId) ==
    /\ authAttempts' = IF success
                       THEN [authAttempts EXCEPT !.successful = @ + 1]
                       ELSE [authAttempts EXCEPT !.failed = @ + 1]
    /\ activeUsers' = IF success /\ userId # NoUser
                      THEN MapSet(activeUsers, userId, now)
                      ELSE activeUsers
    /\ nOps' = nOps + 1
    /\ UNCHANGED <<httpRequestCounts, pizzaMetrics, latencyMetrics, now, nextTick,
                   pending, cycles, recorded, sinceSnapshot>>

\* updateUserActivity that also drops the entries it finds expired
updateUserActivityPurging(userId) ==
    /\ activeUsers' = IF userId # NoUser
                      THEN MapSet([u \in {x \in DOMAIN activeUsers :
                                            ~(activeUsers[x] < now - ExpiryWindow)}
                                     |-> activeUsers[u]], userId, now)
                      ELSE activeUsers
    /\ nOps' = nOps + 1
    /\ UNCHANGED <<httpRequestCounts, authAttempts, pizzaMetrics, latencyMetrics,
                   now, nextTick, pending, cycles, recorded, sinceSnapshot>>

updateUserActivity(userId) ==
    /\ activeUsers' = IF userId # NoUser THEN MapSet(activeUsers, userId, now)
                      ELSE activeUsers
    /\ nOps' = nOps + 1
    /\ UNCHANGED <<httpRequestCounts, authAttempts, pizzaMetrics, latencyMetrics,
                   now, nextTick, pending, cycles, recorded, sinceSnapshot>>

\* removeActiveUser that logs the removal without deleting the entry
removeActiveUserLogOnly(userId) ==
    /\ activeUsers' = activeUsers
    /\ nOps' = nOps + 1
    /\ UNCHANGED <<httpRequestCounts, authAttempts, pizzaMetrics, latencyMetrics,
                   now, nextTick, pending, cycles, recorded, sinceSnapshot>>

removeActiveUser(userId) ==
    /\ activeUsers' = IF userId # NoUser THEN MapDelete(activeUsers, userId)
                      ELSE activeUsers
    /\ nOps' = nOps + 1
    /\ UNCHANGED <<httpRequestCounts, authAttempts, pizzaMetrics, latencyMetrics,
                   now, nextTick, pending, cycles, recorded, sinceSnapshot>>

\* pizzaPurchase waiting until no reporting cycle is under way
pizzaPurchaseWhenIdle(success, latency, revenue) ==
    /\ \A c \in 1..Len(cycles) : cycles[c].pc = "done"
    /\ pizzaMetrics' = IF success
                       THEN [pizzaMetrics EXCEPT !.sold = @ + 1,
                                                 !.revenue = @ + revenue]
                       ELSE [pizzaMetrics EXCEPT !.failures = @ + 1]
    /\ latencyMetrics' = [latencyMetrics EXCEPT !.pizzaLatencies =
                              AppendLatency(@, latency)]
    /\ nOps' = nOps + 1
    /\ UNCHANGED <<httpRequestCounts, authAttempts, activeUsers, now, nextTick,
                   pending, cycles, recorded, sinceSnapshot>>

\* pizzaPurchase counting a failed purchase as sold as well
pizzaPurchaseSoldAlways(success, latency, revenue) ==
    /\ pizzaMetrics' = IF success
                       THEN [pizzaMetrics EXCEPT !.sold = @ + 1,
                                                 !.revenue = @ + revenue]
                       ELSE [pizzaMetrics EXCEPT !.sold = @ + 1,
                                                 !.failures = @ + 1]
    /\ latencyMetrics' = [latencyMetrics EXCEPT !.pizzaLatencies =
                              AppendLatency(@, latency)]
    /\ nOps' = nOps + 1
    /\ UNCHANGED <<httpRequestCounts, authAttempts, activeUsers, now, nextTick,
                   pending, cycles, recorded, sinceSnapshot>>

pizzaPurchase(success, latency, revenue) ==
    /\ pizzaMetrics' = IF success
                       THEN [pizzaMetrics EXCEPT !.sold = @ + 1,
                                                 !.revenue = @ + revenue]
                       ELSE [pizzaMetrics EXCEPT !.failures = @ + 1]
    /\ latencyMetrics' = [latencyMetrics EXCEPT !.pizzaLatencies =
                              AppendLatency(@, latency)]
    /\ nOps' = nOps + 1
    /\ UNCHANGED <<httpRequestCounts, authAttempts, activeUsers, now, nextTick,
                   pending, cycles, recorded, sinceSnapshot>>

\* the clock moves on to a later instant
Advance(t) ==
    /\ t > now
    /\ now' = t
    /\ UNCHANGED <<httpRequestCounts, authAttempts, activeUsers, pizzaMetrics,
                   latencyMetrics, nextTick, pending, cycles, recorded,
                   sinceSnapshot, nOps>>

\* ------------------------------------------------------------ the reporter
\* sweepExpired with <= in place of <: an entry exactly five minutes old goes too
sweepExpiredInclusive(m, t) ==
    LET fiveMinutesAgo == t - ExpiryWindow
    IN  [u \in {x \in DOMAIN m : ~(m[x] <= fiveMinutesAgo)} |-> m[u]]

\* the expiry sweep of sendMetrics: delete every entry older than five minutes
sweepExpired(m, t) ==
    LET fiveMinutesAgo == t - ExpiryWindow
    IN  [u \in {x \in DOMAIN m : ~(m[x] < fiveMinutesAgo)} |-> m[u]]

\* the ids the sweep logs as expired
expiredUsers(m, t) == {u \in DOMAIN m : m[u] < t - ExpiryWindow}

\* the metrics object built by sendMetrics; users is the registry after the sweep
buildMetrics(t, users, cpu, mem) ==
    [source |-> Source,
     timestamp |-> t,
     http_requests_total |-> httpRequestCounts["total"],
     http_requests_get |-> httpRequestCounts["GET"],
     http_requests_post |-> httpRequestCounts["POST"],
     http_requests_put |-> httpRequestCounts["PUT"],
     http_requests_delete |-> httpRequestCounts["DELETE"],
     auth_attempts_successful |-> authAttempts.successful,
     auth_attempts_failed |-> authAttempts.failed,
     active_users |-> Cardinality(DOMAIN users),
     cpu_percent |-> cpu,
     memory_percent |-> mem,
     pizzas_sold |-> pizzaMetrics.sold,
     pizza_failures |-> pizzaMetrics.failures,
     pizza_revenue |-> pizzaMetrics.revenue,
     service_latency_avg |-> getAverageLatency(latencyMetrics.serviceLatencies),
     pizza_latency_avg |-> getAverageLatency(latencyMetrics.pizzaLatencies)]

\* sendMetrics reading activeUsers.size before the sweep
sendMetricsCountingBeforeSweep(cpu, mem, elapsed) ==
    /\ now >= nextTick
    /\ Len(cycles) < MaxCycles
    /\ activeUsers' = sweepExpired(activeUsers, now)
    /\ cycles' = Append(cycles,
                   [pc |-> "fetching",
                    metrics |-> buildMetrics(now, activeUsers, cpu, mem),
                    expired |-> expiredUsers(activeUsers, now),
                    encodedAt |-> now + elapsed,
                    period |-> sinceSnapshot,
                    seen |-> recorded,
                    outcome |-> "pending",
                    promise |-> "pending",
                    resets |-> 0])
    /\ now' = now + elapsed
    /\ nextTick' = now + Interval
    /\ sinceSnapshot' = 0
    /\ UNCHANGED <<httpRequestCounts, authAttempts, pizzaMetrics, latencyMetrics,
                   pending, recorded, nOps>>

\* sendMetrics zeroing the counters as soon as it has read them
sendMetricsResetting(cpu, mem, elapsed) ==
    /\ now >= nextTick
    /\ Len(cycles) < MaxCycles
    /\ activeUsers' = sweepExpired(activeUsers, now)
    /\ cycles' = Append(cycles,
                   [pc |-> "fetching",
                    metrics |-> buildMetrics(now, sweepExpired(activeUsers, now), cpu, mem),
                    expired |-> expiredUsers(activeUsers, now),
                    encodedAt |-> now + elapsed,
                    period |-> sinceSnapshot,
                    seen |-> recorded,
                    outcome |-> "pending",
                    promise |-> "pending",
                    resets |-> 0])
    /\ now' = now + elapsed
    /\ nextTick' = now + Interval
    /\ sinceSnapshot' = 0
    /\ httpRequestCounts' = ZeroHttpRequestCounts
    /\ authAttempts' = ZeroAuthAttempts
    /\ pizzaMetrics' = ZeroPizzaMetrics
    /\ UNCHANGED <<latencyMetrics, pending, recorded, nOps>>

\* the timer callback: sendMetrics from its first statement to the point where
\* sendToGrafana has issued the fetch and is suspended on it.  elapsed is the
\* time that passes between the Date.now() of sendMetrics and the Date.now() of
\* buildOtelMetrics, which run in the same turn.
sendMetrics(cpu, mem, elapsed) ==
    /\ now >= nextTick
    /\ Len(cycles) < MaxCycles
    /\ activeUsers' = sweepExpired(activeUsers, now)
    /\ cycles' = Append(cycles,
                   [pc |-> "fetching",
                    metrics |-> buildMetrics(now, sweepExpired(activeUsers, now), cpu, mem),
                    expired |-> expiredUsers(activeUsers, now),
                    encodedAt |-> now + elapsed,
                    period |-> sinceSnapshot,
                    seen |-> recorded,
                    outcome |-> "pending",
                    promise |-> "pending",
                    resets |-> 0])
    /\ now' = now + elapsed
    /\ nextTick' = now + Interval
    /\ sinceSnapshot' = 0
    /\ UNCHANGED <<httpRequestCounts, authAttempts, pizzaMetrics, latencyMetrics,
                   pending, recorded, nOps>>

\* the timer callback when buildOtelMetrics throws: the sweep and the metrics
\* object are done, the exception is caught and logged by the catch block of
\* sendToGrafana, whose promise therefore fulfils; sendMetrics resumes after its
\* await in a microtask (encodeErrorCaught)
sendMetricsEncodeThrows(cpu, mem) ==
    /\ now >= nextTick
    /\ Len(cycles) < MaxCycles
    /\ activeUsers' = sweepExpired(activeUsers, now)
    /\ cycles' = Append(cycles,
                   [pc |-> "caught",
                    metrics |-> buildMetrics(now, sweepExpired(activeUsers, now), cpu, mem),
                    expired |-> expiredUsers(activeUsers, now),
                    encodedAt |-> now,
                    period |-> sinceSnapshot,
                    seen |-> recorded,
                    outcome |-> "pending",
                    promise |-> "pending",
                    resets |-> 0])
    /\ nextTick' = now + Interval
    /\ sinceSnapshot' = 0
    /\ UNCHANGED <<httpRequestCounts, authAttempts, pizzaMetrics, latencyMetrics,
                   now, pending, recorded, nOps>>

\* the timer callback when building the metrics object throws (for instance
\* config.metrics is undefined): the sweep is done, the exception is caught and
\* logged by the catch block of sendMetrics, resetPeriodMetrics is skipped.  The
\* metrics field of the cycle holds the values the fields had at the throw.
sendMetricsSamplingThrows(cpu, mem) ==
    /\ now >= nextTick
    /\ Len(cycles) < MaxCycles
    /\ activeUsers' = sweepExpired(activeUsers, now)
    /\ cycles' = Append(cycles,
                   [pc |-> "done",
                    metrics |-> buildMetrics(now, sweepExpired(activeUsers, now), cpu, mem),
                    expired |-> expiredUsers(activeUsers, now),
                    encodedAt |-> now,
                    period |-> sinceSnapshot,
                    seen |-> recorded,
                    outcome |-> "sampleError",
                    promise |-> "fulfilled",
                    resets |-> 0])
    /\ nextTick' = now + Interval
    /\ UNCHANGED <<httpRequestCounts, authAttempts, pizzaMetrics, latencyMetrics,
                   now, pending, recorded, sinceSnapshot, nOps>>

\* ------------------------------------------------------------ OTLP payload
\* String.prototype.includes
Includes(s, sub) ==
    \E i \in 1..(Len(s) - Len(sub) + 1) : SubSeq(s, i, i + Len(sub) - 1) = sub

\* getMetricUnit testing for "latency" before "percent"
getMetricUnitLatencyFirst(metricName) ==
    IF Includes(metricName, "latency") THEN "ms"
    ELSE IF Includes(metricName, "percent") THEN "%"
    ELSE IF Includes(metricName, "revenue") THEN "USD"
    ELSE "1"

getMetricUnit(metricName) ==
    IF Includes(metricName, "percent") THEN "%"
    ELSE IF Includes(metricName, "latency") THEN "ms"
    ELSE IF Includes(metricName, "revenue") THEN "USD"
    ELSE IF \/ Includes(metricName, "requests") \/ Includes(metricName, "attempts")
            \/ Includes(metricName, "users") \/ Includes(metricName, "pizzas") THEN "1"
    ELSE "1"

\* the keys of the metrics object in the order Object.entries yields them
\* (insertion order of the object literal)
ObjectKeys ==
    <<"source", "timestamp",
      "http_requests_total", "http_requests_get", "http_requests_post",
      "http_requests_put", "http_requests_delete",
      "auth_attempts_successful", "auth_attempts_failed",
      "active_users", "cpu_percent", "memory_percent",
      "pizzas_sold", "pizza_failures", "pizza_revenue",
      "service_latency_avg", "pizza_latency_avg">>

\* this.getMetricUnit(key) for each key of the metrics object
unitOfKey == [key \in {ObjectKeys[i] : i \in 1..Len(ObjectKeys)} |-> getMetricUnit(key)]

\* typeof of the value the metrics object holds under a key: source is the
\* configured string, every other field is a number
typeOfField(key) == IF key = "source" THEN "string" ELSE "number"

\* the filter of metricsList without its test on the timestamp key
IsGaugeFieldWithTimestamp(key) ==
    key # "source" /\ typeOfField(key) = "number"

\* the filter of metricsList
IsGaugeField(key) ==
    key # "source" /\ key # "timestamp" /\ typeOfField(key) = "number"

\* the integer ms * 1000000 written in base 1000000, most significant digit
\* first (the product exceeds the 32-bit integers)
ToNanos(ms) == <<ms, 0>>

\* buildOtelMetrics(metrics) when its Date.now() reads clock
buildOtelMetrics(metrics, clock) ==
    LET timestamp == ToNanos(clock)
        resource ==
            [attributes |->
                <<[key |-> "service.name", value |-> [stringValue |-> metrics.source]],
                  [key |-> "service.version", value |-> [stringValue |-> "1.0.0"]]>>]
        keys == SelectSeq(ObjectKeys, IsGaugeField)
        metricsList ==
            [i \in 1..Len(keys) |->
                [name |-> keys[i],
                 description |-> keys[i] \o " metric from JWT Pizza Service",
                 unit |-> unitOfKey[keys[i]],
                 gauge |->
                    [dataPoints |->
                        <<[attributes |->
                              <<[key |-> "source",
                                 value |-> [stringValue |-> metrics.source]]>>,
                           asDouble |-> metrics[keys[i]],
                           timeUnixNano |-> timestamp]>>]]]
    IN  [resourceMetrics |->
            <<[resource |-> resource,
               scopeMetrics |->
                  <<[scope |-> [name |-> "jwt-pizza-service-metrics", version |-> "1.0.0"],
                     metrics |-> metricsList]>>]>>]

\* cycle c got past buildOtelMetrics
Encoded(c) == cycles[c].pc \in {"fetching", "readingText"}
              \/ cycles[c].outcome \in {"ok", "non2xx", "neterr"}

\* the payload cycle c posted
Payload(c) == buildOtelMetrics(cycles[c].metrics, cycles[c].encodedAt)

\* trimWindow keeping the oldest samples, slice(0, 50), instead of the newest
trimWindowOldest(w) == IF Len(w) > RetentionCap THEN SubSeq(w, 1, RetentionCap) ELSE w

\* Array.prototype.slice(-50) applied when the array is longer than 50
trimWindow(w) == IF Len(w) > RetentionCap THEN LastN(w, RetentionCap) ELSE w

\* resetPeriodMetrics clearing the activity registry as well
resetPeriodMetricsClearingUsers ==
    /\ httpRequestCounts' = ZeroHttpRequestCounts
    /\ authAttempts' = ZeroAuthAttempts
    /\ pizzaMetrics' = ZeroPizzaMetrics
    /\ latencyMetrics' =
           [serviceLatencies |-> trimWindow(latencyMetrics.serviceLatencies),
            pizzaLatencies |-> trimWindow(latencyMetrics.pizzaLatencies)]
    /\ activeUsers' = EmptyMap
    /\ recorded' = ZeroRecorded

resetPeriodMetrics ==
    /\ httpRequestCounts' = ZeroHttpRequestCounts
    /\ authAttempts' = ZeroAuthAttempts
    /\ pizzaMetrics' = ZeroPizzaMetrics
    /\ latencyMetrics' =
           [serviceLatencies |-> trimWindow(latencyMetrics.serviceLatencies),
            pizzaLatencies |-> trimWindow(latencyMetrics.pizzaLatencies)]
    /\ activeUsers' = activeUsers
    /\ recorded' = ZeroRecorded

\* what sendMetrics does once the awaited sendToGrafana call has returned:
\* sendToGrafana never throws (it catches and logs), so the reset always runs
afterSendToGrafana(c, result) ==
    /\ resetPeriodMetrics
    /\ cycles' = [cycles EXCEPT ![c].pc = "done", ![c].outcome = result,
                                 ![c].promise = "fulfilled", ![c].resets = @ + 1]
    /\ UNCHANGED <<now, nextTick, pending, sinceSnapshot, nOps>>

\* fetchResolved calling resetPeriodMetrics as soon as a non-2xx response
\* arrives, before its text is read and sendToGrafana returns
fetchResolvedResettingEarly(c, status) ==
    /\ c \in 1..Len(cycles)
    /\ cycles[c].pc = "fetching"
    /\ IF status \in 200..299
       THEN afterSendToGrafana(c, "ok")
       ELSE /\ resetPeriodMetrics
            /\ cycles' = [cycles EXCEPT ![c].pc = "readingText", ![c].resets = @ + 1]
            /\ UNCHANGED <<now, nextTick, pending, sinceSnapshot, nOps>>

IsOk(status) == status \in 200..299

\* the fetch promise fulfils with a response of the given status
fetchResolved(c, status) ==
    /\ c \in 1..Len(cycles)
    /\ cycles[c].pc = "fetching"
    /\ IF IsOk(status)
       THEN afterSendToGrafana(c, "ok")
       ELSE /\ cycles' = [cycles EXCEPT ![c].pc = "readingText"]
                    /\ UNCHANGED <<httpRequestCounts, authAttempts, activeUsers,
                           pizzaMetrics, latencyMetrics, now, nextTick, pending,
                           recorded, sinceSnapshot, nOps>>

\* the rejection of fetch caught by neither sendToGrafana nor sendMetrics
fetchRejectedEscapes(c) ==
    /\ c \in 1..Len(cycles)
    /\ cycles[c].pc = "fetching"
    /\ cycles' = [cycles EXCEPT ![c].pc = "done", ![c].outcome = "neterr",
                                 ![c].promise = "rejected"]
    /\ UNCHANGED <<httpRequestCounts, authAttempts, activeUsers, pizzaMetrics,
                   latencyMetrics, now, nextTick, pending, recorded, sinceSnapshot, nOps>>

\* the fetch promise rejects (transport error): caught and logged in sendToGrafana
fetchRejected(c) ==
    /\ c \in 1..Len(cycles)
    /\ cycles[c].pc = "fetching"
    /\ afterSendToGrafana(c, "neterr")

\* the continuation after a caught encoding exception never being run
encodeErrorCaughtNever(c) ==
    /\ c \in 1..Len(cycles)
    /\ cycles[c].pc = "caught"
    /\ cycles' = [cycles EXCEPT ![c].pc = "stuck"]
    /\ UNCHANGED <<httpRequestCounts, authAttempts, activeUsers, pizzaMetrics,
                   latencyMetrics, now, nextTick, pending, recorded, sinceSnapshot, nOps>>

\* the microtask that resumes sendMetrics after sendToGrafana caught the
\* exception of buildOtelMetrics
encodeErrorCaught(c) ==
    /\ c \in 1..Len(cycles)
    /\ cycles[c].pc = "caught"
    /\ afterSendToGrafana(c, "encodeError")

\* sendToGrafana posting the payload again after a non-2xx response
responseTextSettledRetrying(c) ==
    /\ c \in 1..Len(cycles)
    /\ cycles[c].pc = "readingText"
    /\ cycles' = [cycles EXCEPT ![c].pc = "fetching"]
    /\ UNCHANGED <<httpRequestCounts, authAttempts, activeUsers, pizzaMetrics,
                   latencyMetrics, now, nextTick, pending, recorded, sinceSnapshot, nOps>>

\* response.text() of a non-2xx response settles; the failure is logged
responseTextSettled(c) ==
    /\ c \in 1..Len(cycles)
    /\ cycles[c].pc = "readingText"
    /\ afterSendToGrafana(c, "non2xx")

\* ------------------------------------------------------------------- Next
\* a recording call with its arguments drawn from the given sets
Record(methods, users, successes, latencies, revenues) ==
    \/ \E m \in methods, u \in users : requestTracker(m, u)
    \/ \E s \in BOOLEAN, u \in users : recordAuthAttempt(s, u)
    \/ \E u \in users : updateUserActivity(u)
    \/ \E u \in users : removeActiveUser(u)
    \/ \E s \in successes, l \in latencies, r \in revenues : pizzaPurchase(s, l, r)

\* no microtask is queued: the continuation of a timer callback runs before any
\* other handler or timer
RunToCompletion == \A c \in 1..Len(cycles) : cycles[c].pc # "caught"

\* a timer callback in which an exception is thrown, and its continuation
ReportThrows ==
    \/ \E cpu \in CpuValues, mem \in MemValues : sendMetricsEncodeThrows(cpu, mem)
    \/ \E cpu \in CpuValues, mem \in MemValues : sendMetricsSamplingThrows(cpu, mem)

\* a step of the reporter; elapsed is the set of times the timer callback may take
\* between its two clock readings
Report(elapsed) ==
    \/ \E cpu \in CpuValues, mem \in MemValues, e \in elapsed : sendMetrics(cpu, mem, e)
    \/ \E c \in 1..Len(cycles), st \in Statuses : fetchResolved(c, st)
    \/ \E c \in 1..Len(cycles) : fetchRejected(c)
    \/ \E c \in 1..Len(cycles) : responseTextSettled(c)

\* Spec: every method and both pizza outcomes, one user, two timer periods
\* (too short for an entry to expire); a response finishes within the millisecond
Next ==
    /\ \/ nOps < MaxOps /\ Record(Methods, {NoUser, "u1"}, BOOLEAN, {100}, Revenues)
       \/ \E i \in 1..Len(pending) : finish(i)
       \/ \E t \in {Interval, 2 * Interval} : pending = <<>> /\ Advance(t)
       \/ Report({0})
    /\ UNCHANGED probe

Spec == Init /\ [][Next]_vars

\* SpecExpiry: two users and the instants around the five-minute boundary
ExpiryNext ==
    /\ \/ nOps < MaxOps /\ Record({"GET"}, Users \cup {NoUser}, {TRUE}, {100}, {999})
       \/ \E i \in 1..Len(pending) : finish(i)
       \/ \E t \in TimePoints : pending = <<>> /\ Advance(t)
       \/ Report({0})
    /\ UNCHANGED probe

SpecExpiry == Init /\ [][ExpiryNext]_vars

\* SpecWin: the latency windows at their real sizes.  Requests and pizza purchases
\* alternate, the k-th of each taking k % WinLatMod milliseconds, so that every
\* window content is determined by how many samples were recorded and when the
\* resets happened; the timer comes due every WinTickEvery recordings and the
\* collector answers before the next recording.
\* the environment of the failure properties: every way a cycle can end, the
\* clock moving inside the timer callback, and few recording calls
FailNext ==
    /\ \/ /\ RunToCompletion
          /\ \/ nOps < MaxOps /\ Record({"GET"}, {NoUser}, {TRUE}, {100}, {999})
             \/ \E i \in 1..Len(pending) : finish(i)
             \/ \E t \in {Interval, 2 * Interval} : pending = <<>> /\ Advance(t)
             \/ Report({0, 1})
             \/ ReportThrows
       \/ \E c \in 1..Len(cycles) : encodeErrorCaught(c)
    /\ UNCHANGED probe

SpecFail == Init /\ [][FailNext]_vars

\* the next step of cycle c: the promise it awaits settles, or its queued
\* continuation runs
SettleCycle(c) ==
    /\ \/ \E st \in Statuses : fetchResolved(c, st)
       \/ fetchRejected(c)
       \/ responseTextSettled(c)
       \/ encodeErrorCaught(c)
    /\ UNCHANGED probe

\* SpecFail when every delivery call eventually completes and the event loop
\* runs what is queued
SpecLive == SpecFail /\ \A c \in 1..MaxCycles : WF_vars(SettleCycle(c))

WinLatency == (nOps \div 2) % WinLatMod
\* the latency of the purchase about to be recorded: 120, 80, 40, 120, ...
WinPizzaLatency == 120 - 40 * WinLatency

WinIdle == /\ pending = <<>>
           /\ now < nextTick
           /\ \A c \in 1..Len(cycles) : cycles[c].pc = "done"

WinNext ==
    /\ \/ /\ nOps < WinMaxOps /\ nOps % 2 = 0 /\ WinIdle
          /\ requestTracker("GET", NoUser)
       \/ /\ pending # <<>> /\ now - pending[1] < WinLatency
          /\ Advance(now + 1)
       \/ /\ pending # <<>> /\ now - pending[1] = WinLatency
          /\ finish(1)
       \/ /\ nOps < WinMaxOps /\ nOps % 2 = 1 /\ WinIdle
          /\ pizzaPurchase(nOps % 4 = 1, WinPizzaLatency, IF nOps % 4 = 1 THEN 999 ELSE 0)
       \/ /\ nOps > 0 /\ nOps % WinTickEvery = 0 /\ WinIdle
          /\ Advance(nextTick)
       \/ Report({0})
    /\ UNCHANGED probe

SpecWin == Init /\ [][WinNext]_vars

\* the environment of the eviction rule: purchases only, the k-th with latency
\* k, and no reporting cycle, hence no reset
FifoNext ==
    /\ nOps < MaxPushes
    /\ \E success \in BOOLEAN : pizzaPurchase(success, nOps + 1, 0)
    /\ UNCHANGED probe

SpecFifo == Init /\ [][FifoNext]_vars

\* ---------------------------------------------- functions applied on their own
\* metric names: the keys of the metrics object, and every name made of up to
\* MaxNameParts of these words joined by "_"
NameParts == {"percent", "latency", "revenue", "requests", "cpu", "avg"}

RECURSIVE JoinFrom(_, _)
JoinFrom(parts, i) ==
    IF i = Len(parts) THEN parts[i] ELSE parts[i] \o "_" \o JoinFrom(parts, i + 1)

Names ==
    {ObjectKeys[i] : i \in 1..Len(ObjectKeys)}
    \cup {JoinFrom(parts, 1) : parts \in UNION {[1..n -> NameParts] : n \in 1..MaxNameParts}}

\* latency arrays: up to MaxWindowLen samples between 0 and MaxSample
Windows == UNION {[1..n -> 0..MaxSample] : n \in 0..MaxWindowLen}

PureInit ==
    /\ Constructed
    /\ \/ \E name \in Names : probe = [fn |-> "getMetricUnit", arg |-> name]
       \/ \E w \in Windows : probe = [fn |-> "getAverageLatency", arg |-> w]

Returned == "result" \in DOMAIN probe

applyGetMetricUnit ==
    /\ probe.fn = "getMetricUnit"
    /\ ~Returned
    /\ probe' = [fn |-> probe.fn, arg |-> probe.arg, result |-> getMetricUnit(probe.arg)]
    /\ UNCHANGED <<httpRequestCounts, authAttempts, activeUsers, pizzaMetrics,
                   latencyMetrics, now, nextTick, pending, cycles, recorded,
                   sinceSnapshot, nOps>>

applyGetAverageLatency ==
    /\ probe.fn = "getAverageLatency"
    /\ ~Returned
    /\ probe' = [fn |-> probe.fn, arg |-> probe.arg,
                 result |-> getAverageLatency(probe.arg)]
    /\ UNCHANGED <<httpRequestCounts, authAttempts, activeUsers, pizzaMetrics,
                   latencyMetrics, now, nextTick, pending, cycles, recorded,
                   sinceSnapshot, nOps>>

PureNext == applyGetMetricUnit \/ applyGetAverageLatency

SpecPure == PureInit /\ [][PureNext]_vars

\* ------------------------------------------------------------ properties
InFlight == {c \in 1..Len(cycles) : cycles[c].pc # "done"}

\* the step is the timer callback: a new cycle takes its snapshot
SnapshotStep == Len(cycles') = Len(cycles) + 1

\* the step completes cycle c, i.e. runs what follows the awaited sendToGrafana
Completes(c) == cycles[c].pc # "done" /\ cycles'[c].pc = "done"

ZeroCounters(h, a, p) ==
    /\ \A k \in DOMAIN h : h[k] = 0
    /\ {"total"} \cup KnownMethods \subseteq DOMAIN h
    /\ a.successful = 0 /\ a.failed = 0
    /\ p.sold = 0 /\ p.failures = 0 /\ p.revenue = 0

\* C1: a reporting cycle whose delivery ends with a non-2xx response or a
\* transport error performs no reset: right after the cycle every counter is
\* at least the value the cycle's snapshot recorded.
C1_FailedCycleKeepsCounters ==
    [][\A c \in 1..Len(cycles) :
         (Completes(c) /\ cycles'[c].outcome # "ok") =>
            LET m == cycles[c].metrics
            IN  /\ httpRequestCounts'["total"] >= m.http_requests_total
                /\ httpRequestCounts'["GET"] >= m.http_requests_get
                /\ httpRequestCounts'["POST"] >= m.http_requests_post
                /\ httpRequestCounts'["PUT"] >= m.http_requests_put
                /\ httpRequestCounts'["DELETE"] >= m.http_requests_delete
                /\ authAttempts'.successful >= m.auth_attempts_successful
                /\ authAttempts'.failed >= m.auth_attempts_failed
                /\ pizzaMetrics'.sold >= m.pizzas_sold
                /\ pizzaMetrics'.failures >= m.pizza_failures
                /\ pizzaMetrics'.revenue >= m.pizza_revenue]_vars

\* C2: when the first cycle's delivery returns a non-2xx status and the second
\* cycle's delivery succeeds, the second snapshot reports the requests of both
\* periods together (period k = the requests recorded after snapshot k-1 and
\* up to snapshot k).
C2_NextCycleReportsBothPeriods ==
    (/\ Len(cycles) >= 2
     /\ cycles[1].outcome = "non2xx"
     /\ cycles[2].outcome = "ok")
    => cycles[2].metrics.http_requests_total = cycles[1].period + cycles[2].period

\* C3: at most one reporting cycle is between its snapshot and its completion.
C3_CyclesNeverOverlap == Cardinality(InFlight) <= 1

SumRecorded(r) == r["GET"] + r["POST"] + r["PUT"] + r["DELETE"] + r["PATCH"]

\* C4: since the last reset, httpRequestCounts.total is the number of
\* requestTracker calls and each of GET, POST, PUT, DELETE counts the calls with
\* that method; every snapshot reports exactly these values.
C4_RequestCountsExact ==
    /\ httpRequestCounts["total"] = SumRecorded(recorded)
    /\ \A m \in KnownMethods : httpRequestCounts[m] = recorded[m]
    /\ \A c \in 1..Len(cycles) :
          /\ cycles[c].metrics.http_requests_total = SumRecorded(cycles[c].seen)
          /\ cycles[c].metrics.http_requests_get = cycles[c].seen["GET"]
          /\ cycles[c].metrics.http_requests_post = cycles[c].seen["POST"]
          /\ cycles[c].metrics.http_requests_put = cycles[c].seen["PUT"]
          /\ cycles[c].metrics.http_requests_delete = cycles[c].seen["DELETE"]

\* a snapshot taken after one GET and one POST reports total 2, get 1, post 1
C4_Witness ==
    \E c \in 1..Len(cycles) :
        /\ cycles[c].seen["GET"] = 1 /\ cycles[c].seen["POST"] = 1
        /\ cycles[c].metrics.http_requests_total = 2
        /\ cycles[c].metrics.http_requests_get = 1
        /\ cycles[c].metrics.http_requests_post = 1

\* C5: neither latency window is ever longer than 100.
C5_WindowsWithinHardCap ==
    /\ Len(latencyMetrics.serviceLatencies) <= 100
    /\ Len(latencyMetrics.pizzaLatencies) <= 100

\* more than 100 samples went into each window with no reset in between, and
\* both windows hold 100
C5_Witness ==
    /\ cycles = <<>>
    /\ nOps > 2 * 100 + 1
    /\ pending = <<>>
    /\ Len(latencyMetrics.serviceLatencies) = 100
    /\ Len(latencyMetrics.pizzaLatencies) = 100

\* C6: right after resetPeriodMetrics every counter is 0 and each latency
\* window consists of its most recent min(previous length, 50) samples, in order.
C6_ResetZeroesAndTrims ==
    [][\A c \in 1..Len(cycles) : Completes(c) =>
          /\ ZeroCounters(httpRequestCounts', authAttempts', pizzaMetrics')
          /\ \A w \in {"serviceLatencies", "pizzaLatencies"} :
                LET old == latencyMetrics[w]
                    new == latencyMetrics'[w]
                    n == Min(Len(old), 50)
                IN  /\ Len(new) = n
                    /\ Len(new) <= 50
                    /\ \A i \in 1..n : new[i] = old[Len(old) - n + i]]_vars

\* a reset has cut both windows down to 50 after 100 or more samples each
C6_Witness ==
    /\ nOps >= 2 * 100
    /\ cycles # <<>> /\ InFlight = {}
    /\ cycles[Len(cycles)].metrics.pizzas_sold > 0
    /\ ZeroCounters(httpRequestCounts, authAttempts, pizzaMetrics)
    /\ Len(latencyMetrics.serviceLatencies) = 50
    /\ Len(latencyMetrics.pizzaLatencies) = 50

\* C7: resetPeriodMetrics leaves the activeUsers registry as it was.
C7_ResetKeepsActiveUsers ==
    [][\A c \in 1..Len(cycles) : Completes(c) => activeUsers' = activeUsers]_vars

\* a cycle that counted two active users has run its reset and both are still there
C7_Witness ==
    \E c \in 1..Len(cycles) :
        /\ cycles[c].pc = "done"
        /\ cycles[c].metrics.active_users = 2
        /\ DOMAIN activeUsers = Users

\* C8: the snapshot taken at time t removes exactly the entries with
\* t - lastActivity > 300000 and keeps every other entry with its timestamp.
C8_SweepRemovesExactlyExpired ==
    [][SnapshotStep =>
          LET t == cycles'[Len(cycles')].metrics.timestamp
          IN  \A u \in DOMAIN activeUsers :
                 /\ t - activeUsers[u] > 300000 => u \notin DOMAIN activeUsers'
                 /\ t - activeUsers[u] <= 300000 =>
                        /\ u \in DOMAIN activeUsers'
                        /\ activeUsers'[u] = activeUsers[u]]_vars

\* a snapshot has expired one user and kept another that was exactly five
\* minutes old
C8_Witness ==
    \E c \in 1..Len(cycles) :
        /\ cycles[c].pc = "fetching"
        /\ cycles[c].expired # {}
        /\ \E u \in DOMAIN activeUsers :
              cycles[c].metrics.timestamp - activeUsers[u] = 300000

\* C9: an entry leaves activeUsers only in the snapshot step of sendMetrics or
\* in a removeActiveUser call for that id.
C9_OnlySweepOrLogoutRemoves ==
    [][\A u \in DOMAIN activeUsers :
          u \notin DOMAIN activeUsers' => (SnapshotStep \/ removeActiveUser(u))]_vars

\* an entry older than five minutes is still registered although another
\* user's activity has been recorded at the current instant
C9_Witness ==
    \E u, v \in DOMAIN activeUsers :
        /\ now - activeUsers[u] > 300000
        /\ activeUsers[v] = now
        /\ cycles = <<>>

\* C10: building the snapshot changes no counter and no latency window; all it
\* changes in the aggregate is to remove expired activeUsers entries.
C10_SnapshotOnlySweeps ==
    [][SnapshotStep =>
          /\ httpRequestCounts' = httpRequestCounts
          /\ authAttempts' = authAttempts
          /\ pizzaMetrics' = pizzaMetrics
          /\ latencyMetrics' = latencyMetrics
          /\ \A u \in DOMAIN activeUsers' :
                u \in DOMAIN activeUsers /\ activeUsers'[u] = activeUsers[u]
          /\ \A u \in DOMAIN activeUsers \ DOMAIN activeUsers' :
                now - activeUsers[u] > 300000]_vars

\* a snapshot that expired a user was taken with counters and a window non-empty,
\* and they are still as the snapshot read them
C10_Witness ==
    \E c \in 1..Len(cycles) :
        /\ cycles[c].pc = "fetching"
        /\ cycles[c].expired # {}
        /\ cycles[c].metrics.http_requests_total > 0
        /\ httpRequestCounts["total"] = cycles[c].metrics.http_requests_total
        /\ authAttempts.successful > 0
        /\ Len(latencyMetrics.serviceLatencies) > 0

\* C11: when buildOtelMetrics throws during a cycle, resetPeriodMetrics is not
\* performed: the step that ends the cycle leaves the counters and the latency
\* windows as they were.
C11_EncodeFailureSkipsReset ==
    [][\A c \in 1..Len(cycles) :
         (Completes(c) /\ cycles'[c].outcome = "encodeError") =>
            UNCHANGED <<httpRequestCounts, authAttempts, pizzaMetrics, latencyMetrics>>]_vars

\* C12: no failure inside a cycle escapes sendMetrics.  The promise of a cycle is
\* never rejected and is fulfilled once the cycle has ended, however it ended;
\* the timer stays armed (its next tick is due within one interval); and at a
\* tick the timer callback can start a cycle whatever happened to the earlier
\* cycles.
C12_FailuresNeverEscape ==
    /\ \A c \in 1..Len(cycles) :
          /\ cycles[c].promise \in {"pending", "fulfilled"}
          /\ cycles[c].pc = "done" <=> cycles[c].promise = "fulfilled"
          /\ cycles[c].pc = "done" =>
                cycles[c].outcome \in {"ok", "non2xx", "neterr", "encodeError", "sampleError"}
    /\ nextTick <= now + 30000
    /\ (now >= nextTick /\ Len(cycles) < MaxCycles /\ RunToCompletion) =>
          ENABLED (\E cpu \in CpuValues, mem \in MemValues : sendMetrics(cpu, mem, 0))

\* a cycle whose fetch was rejected has ended, and a later tick started a cycle
\* (it saw the counters the first one had reset) whose encoding threw
C12_Witness ==
    /\ Len(cycles) = 2
    /\ cycles[1].outcome = "neterr"
    /\ cycles[1].promise = "fulfilled"
    /\ cycles[1].metrics.http_requests_total = 1
    /\ cycles[2].metrics.http_requests_total = 0
    /\ cycles[2].period = 0
    /\ cycles[2].outcome = "encodeError"
    /\ cycles[2].promise = "fulfilled"

\* the gauges of the payload of cycle c, as a tuple
Gauges(c) ==
    LET metrics == Payload(c).resourceMetrics[1].scopeMetrics[1].metrics
    IN  SubSeq(metrics, 1, Len(metrics))

\* C13: every data point of a payload carries as timeUnixNano the timestamp
\* field of its snapshot multiplied by 1,000,000, however much the clock moved
\* between the snapshot and the encoding.
C13_StampedWithSnapshotTime ==
    \A c \in 1..Len(cycles) :
        Encoded(c) =>
            \A i \in 1..Len(Gauges(c)) :
                \A j \in 1..Len(Gauges(c)[i].gauge.dataPoints) :
                    Gauges(c)[i].gauge.dataPoints[j].timeUnixNano
                        = <<cycles[c].metrics.timestamp, 0>>

\* C15: the payload has exactly one gauge per numeric field of the snapshot other
\* than source and timestamp, named after the field, with exactly one data point
\* whose asDouble is the value of the field; source and timestamp are no metrics.
\* (As many gauges as fields, and the names of the gauges are exactly the fields:
\* each field names one gauge.)
C15_OneGaugePerNumericField ==
    \A c \in 1..Len(cycles) :
        Encoded(c) =>
            LET m == cycles[c].metrics
                g == Gauges(c)
                fields == DOMAIN m \ {"source", "timestamp"}
            IN  /\ Len(g) = Cardinality(fields)
                /\ {g[i].name : i \in 1..Len(g)} = fields
                /\ \A i \in 1..Len(g) :
                      /\ Len(g[i].gauge.dataPoints) = 1
                      /\ g[i].gauge.dataPoints[1].asDouble = m[g[i].name]

\* a delivered payload whose gauges carry non-zero values of a snapshot
C15_Witness ==
    \E c \in 1..Len(cycles) :
        /\ cycles[c].outcome = "ok"
        /\ cycles[c].metrics.http_requests_get = 1
        /\ cycles[c].metrics.pizza_revenue = 999
        /\ \E i \in 1..Len(Gauges(c)) :
              Gauges(c)[i].name = "pizza_revenue"
              /\ Gauges(c)[i].gauge.dataPoints[1].asDouble = 999

\* C16: the unit of a metric follows its name, the tests being made in this
\* order: a name containing "percent" has unit %, else one containing "latency"
\* has ms, else one containing "revenue" has USD, and any other name has 1.  In
\* particular cpu_percent and memory_percent have %, service_latency_avg and
\* pizza_latency_avg have ms, pizza_revenue has USD and the other fields of the
\* snapshot have 1.
C16_UnitFollowsName ==
    (probe.fn = "getMetricUnit" /\ Returned) =>
        LET name == probe.arg
            unit == probe.result
            percent == Includes(name, "percent")
            latency == Includes(name, "latency")
            revenue == Includes(name, "revenue")
        IN  /\ percent => unit = "%"
            /\ (~percent /\ latency) => unit = "ms"
            /\ (~percent /\ ~latency /\ revenue) => unit = "USD"
            /\ (~percent /\ ~latency /\ ~revenue) => unit = "1"
            /\ name \in {"cpu_percent", "memory_percent"} => unit = "%"
            /\ name \in {"service_latency_avg", "pizza_latency_avg"} => unit = "ms"
            /\ name = "pizza_revenue" => unit = "USD"
            /\ name \in {"http_requests_total", "http_requests_get", "http_requests_post",
                          "http_requests_put", "http_requests_delete",
                          "auth_attempts_successful", "auth_attempts_failed",
                          "active_users", "pizzas_sold", "pizza_failures"} => unit = "1"

\* a name that contains two of the words: the earlier test decides
C16_Witness == probe = [fn |-> "getMetricUnit", arg |-> "latency_percent", result |-> "%"]

\* C20: getAverageLatency returns 0 for an empty window and, for n > 0
\* non-negative integer samples, their mean rounded to the nearest integer with
\* halves going up: floor((2 * sum + n) / (2 * n)).
C20_AverageRoundsHalfUp ==
    (probe.fn = "getAverageLatency" /\ Returned) =>
        LET n == Len(probe.arg)
        IN  probe.result = IF n = 0 THEN 0
                           ELSE (2 * SumSeq(probe.arg) + n) \div (2 * n)

\* a window whose mean is an exact half
C20_Witness == probe = [fn |-> "getAverageLatency", arg |-> <<1, 2>>, result |-> 2]

\* C17: pizzaPurchase(success, latency, revenue) adds 1 to sold and the amount to
\* revenue and leaves failures when success is true; adds 1 to failures and
\* leaves sold and revenue when success is false; and in both cases appends the
\* latency to pizzaLatencies, dropping the oldest sample when that makes more
\* than 100.  After (true, 120, 9.99) and (false, 80, 0), amounts in hundredths,
\* sold = 1, failures = 1, revenue = 999 and the average latency is 100.
C17_PizzaPurchaseCounts ==
    /\ [][\A success \in BOOLEAN, latency \in {0, 40, 80, 120}, revenue \in {0, 999} :
            pizzaPurchase(success, latency, revenue) =>
                LET old == latencyMetrics.pizzaLatencies
                    new == latencyMetrics'.pizzaLatencies
                IN  /\ success =>
                          /\ pizzaMetrics'.sold = pizzaMetrics.sold + 1
                          /\ pizzaMetrics'.revenue = pizzaMetrics.revenue + revenue
                          /\ pizzaMetrics'.failures = pizzaMetrics.failures
                    /\ ~success =>
                          /\ pizzaMetrics'.failures = pizzaMetrics.failures + 1
                          /\ pizzaMetrics'.sold = pizzaMetrics.sold
                          /\ pizzaMetrics'.revenue = pizzaMetrics.revenue
                    /\ new[Len(new)] = latency
                    /\ Len(old) < 100 =>
                          Len(new) = Len(old) + 1 /\ SubSeq(new, 1, Len(old)) = old
                    /\ Len(old) = 100 =>
                          Len(new) = 100 /\ SubSeq(new, 1, 99) = SubSeq(old, 2, 100)]_vars
    /\ [](nOps = 4 =>
            /\ pizzaMetrics.sold = 1
            /\ pizzaMetrics.failures = 1
            /\ pizzaMetrics.revenue = 999
            /\ getAverageLatency(latencyMetrics.pizzaLatencies) = 100)

\* the two purchases of the example have been recorded
C17_Witness ==
    /\ nOps = 4
    /\ latencyMetrics.pizzaLatencies = <<120, 80>>
    /\ pizzaMetrics = [sold |-> 1, failures |-> 1, revenue |-> 999]

\* C18: recordAuthAttempt(success, userId) adds 1 to exactly one of
\* authAttempts.successful (success true) and authAttempts.failed (success
\* false); it sets activeUsers[userId] to the current time only when success is
\* true and a userId is given, and leaves the registry as it is otherwise.
C18_AuthAttemptCounts ==
    [][\A success \in BOOLEAN, userId \in {"none", "u1"} :
         recordAuthAttempt(success, userId) =>
            /\ success =>
                  /\ authAttempts'.successful = authAttempts.successful + 1
                  /\ authAttempts'.failed = authAttempts.failed
            /\ ~success =>
                  /\ authAttempts'.failed = authAttempts.failed + 1
                  /\ authAttempts'.successful = authAttempts.successful
            /\ (success /\ userId # "none") =>
                  /\ DOMAIN activeUsers' = DOMAIN activeUsers \cup {userId}
                  /\ activeUsers'[userId] = now
                  /\ \A u \in DOMAIN activeUsers \ {userId} : activeUsers'[u] = activeUsers[u]
            /\ (~success \/ userId = "none") => activeUsers' = activeUsers]_vars

\* u1 signed in at time 0; a failed attempt was recorded as well, and at time
\* 30000 the entry of u1 still carries time 0
C18_Witness ==
    /\ authAttempts = [successful |-> 1, failed |-> 1]
    /\ now = 30000
    /\ DOMAIN activeUsers = {"u1"}
    /\ activeUsers["u1"] = 0

\* C19: removeActiveUser(userId) leaves userId absent from activeUsers at once,
\* with the entries of the other users as they were; an absent id becomes
\* present again only by a request of that user, a successful authentication of
\* that user or updateUserActivity for that user; and a snapshot counts exactly
\* the ids present after its sweep.
C19_LogoutRemovesAtOnce ==
    [][/\ \A userId \in {"u1", "u2"} :
            removeActiveUser(userId) =>
                /\ userId \notin DOMAIN activeUsers'
                /\ DOMAIN activeUsers' = DOMAIN activeUsers \ {userId}
                /\ \A u \in DOMAIN activeUsers' : activeUsers'[u] = activeUsers[u]
       /\ \A userId \in {"u1", "u2"} :
            (userId \notin DOMAIN activeUsers /\ userId \in DOMAIN activeUsers') =>
                \/ \E method \in {"GET", "POST", "PUT", "DELETE", "PATCH"} :
                      requestTracker(method, userId)
                \/ recordAuthAttempt(TRUE, userId)
                \/ updateUserActivity(userId)
       /\ SnapshotStep =>
            cycles'[Len(cycles')].metrics.active_users = Cardinality(DOMAIN activeUsers')]_vars

\* u1 was active at the first snapshot, which counted it; it was then removed by
\* removeActiveUser (nothing had expired), and the second snapshot counts nobody
C19_Witness ==
    /\ Len(cycles) = 2
    /\ nOps = 2
    /\ cycles[1].metrics.active_users = 1
    /\ cycles[1].expired = {}
    /\ cycles[2].metrics.active_users = 0
    /\ cycles[2].expired = {}
    /\ activeUsers = EmptyMap

\* C21: a request whose method is none of GET, POST, PUT, DELETE is recorded
\* without error: requestTracker adds 1 to total, leaves the four per-method
\* counters as they are, and calls next(), so that the request proceeds (it is
\* unfinished after the step and finishes later).
C21_UnknownMethodTolerated ==
    [][\A userId \in {"none", "u1"} :
         requestTracker("PATCH", userId) =>
            /\ httpRequestCounts'["total"] = httpRequestCounts["total"] + 1
            /\ \A k \in {"GET", "POST", "PUT", "DELETE"} :
                  httpRequestCounts'[k] = httpRequestCounts[k]
            /\ Len(pending') = Len(pending) + 1]_vars

\* a PATCH request has been counted in total only and is on its way
C21_Witness ==
    /\ recorded["PATCH"] = 1
    /\ httpRequestCounts["total"] = 1
    /\ \A k \in {"GET", "POST", "PUT", "DELETE"} : httpRequestCounts[k] = 0
    /\ Len(pending) = 1

\* C22: a cycle makes at most one delivery attempt.  A cycle is awaiting the
\* response to its POST only from its own start: no step puts an existing cycle
\* (back) into that position, so a failed delivery is not retried; and a new
\* cycle, with the next attempt, starts only at a timer tick, at least one
\* interval after the start of the previous cycle.
C22_OnePostPerCycle ==
    [][/\ \A c \in 1..Len(cycles) :
            /\ cycles'[c].pc = "fetching" => cycles[c].pc = "fetching"
            /\ cycles[c].pc = "done" => cycles'[c].pc = "done"
       /\ SnapshotStep =>
            /\ now >= nextTick
            /\ Len(cycles) > 0 =>
                  now >= cycles[Len(cycles)].metrics.timestamp + 30000]_vars

\* the first delivery got a non-2xx response and its cycle ended; the next
\* POST is the one of the second cycle
C22_Witness ==
    /\ Len(cycles) = 2
    /\ cycles[1].pc = "done"
    /\ cycles[1].outcome = "non2xx"
    /\ cycles[2].pc = "fetching"

\* C23: the reporter never blocks a recording operation.  Whatever the positions
\* of the cycles, in particular while one awaits the response to its POST,
\* recordAuthAttempt, updateUserActivity, removeActiveUser and pizzaPurchase can
\* run, and so can requestTracker (the model follows one request at a time, so
\* for it: whenever no request is unfinished).
C23_RecordingNeverBlocked ==
    RunToCompletion =>
        /\ ENABLED recordAuthAttempt(TRUE, "u1")
        /\ ENABLED recordAuthAttempt(FALSE, "none")
        /\ ENABLED updateUserActivity("u1")
        /\ ENABLED removeActiveUser("u1")
        /\ ENABLED pizzaPurchase(TRUE, 100, 999)
        /\ ENABLED pizzaPurchase(FALSE, 100, 0)
        /\ pending = <<>> => ENABLED requestTracker("GET", "u1")

\* a request was recorded after the snapshot of a cycle that is still awaiting
\* the response to its POST
C23_Witness ==
    \E c \in 1..Len(cycles) :
        /\ cycles[c].pc = "fetching"
        /\ cycles[c].metrics.http_requests_total = 0
        /\ httpRequestCounts["total"] = 1
        /\ sinceSnapshot = 1

\* the requests recorded up to the snapshot of the n-th cycle, and the requests
\* reported by those of the first n cycles that were delivered
RECURSIVE RequestsBefore(_)
RequestsBefore(n) == IF n = 0 THEN 0 ELSE RequestsBefore(n - 1) + cycles[n].period

RECURSIVE RequestsDelivered(_)
RequestsDelivered(n) ==
    IF n = 0 THEN 0
    ELSE RequestsDelivered(n - 1)
         + (IF cycles[n].outcome = "ok" THEN cycles[n].metrics.http_requests_total ELSE 0)

AllDelivered == \A c \in 1..Len(cycles) : cycles[c].outcome = "ok"

\* C24: when every delivery succeeds no increment is lost: whenever all the
\* cycles so far have been delivered, each request recorded so far is either in
\* a delivered snapshot or still in the counter, to be reported by a later cycle;
\* in particular a request recorded while a cycle awaits its response is not
\* discarded by the reset of that cycle.
C24_NoIncrementLost ==
    AllDelivered =>
        RequestsBefore(Len(cycles)) + sinceSnapshot
            <= RequestsDelivered(Len(cycles)) + httpRequestCounts["total"]

\* C25: in a cycle the sweep and the snapshot come first, then the encoding,
\* then the delivery, then the reset.  The payload is built no earlier than the
\* snapshot; a cycle calls resetPeriodMetrics at most once, never while its
\* delivery is under way, and has called it exactly once when it ended after
\* sendToGrafana returned.
C25_ResetOnceAfterDelivery ==
    \A c \in 1..Len(cycles) :
        /\ cycles[c].encodedAt >= cycles[c].metrics.timestamp
        /\ cycles[c].resets <= 1
        /\ cycles[c].pc \in {"fetching", "readingText"} => cycles[c].resets = 0
        /\ cycles[c].outcome \in {"ok", "non2xx", "neterr"} =>
              cycles[c].pc = "done" /\ cycles[c].resets = 1

\* a cycle that went through every step: its payload was built one millisecond
\* after its snapshot, its delivery got a non-2xx response, and it reset once
C25_Witness ==
    \E c \in 1..Len(cycles) :
        /\ cycles[c].encodedAt = cycles[c].metrics.timestamp + 1
        /\ cycles[c].outcome = "non2xx"
        /\ cycles[c].resets = 1
        /\ cycles[c].metrics.http_requests_total = 1
        /\ httpRequestCounts["total"] = 0

\* C26: when every delivery succeeds no increment is in more than one delivered
\* snapshot, whatever the timing of the ticks and of the deliveries: the sum of
\* http_requests_total over the delivered snapshots never exceeds the number of
\* requests recorded.
C26_NoDoubleCounting ==
    (\A c \in 1..Len(cycles) : cycles[c].outcome \in {"ok", "pending"}) =>
        RequestsDelivered(Len(cycles)) <= RequestsBefore(Len(cycles)) + sinceSnapshot

\* C27: eviction is first in, first out.  After n recordings into a window that
\* was empty, with no reset in between, the window holds the last min(n, 100)
\* recorded values in the order of recording (here the k-th value recorded is
\* k), so that each recording from the 101st on drops the oldest value retained.
C27_EvictionIsFifo ==
    LET n == nOps
        kept == IF n < 100 THEN n ELSE 100
    IN  latencyMetrics.pizzaLatencies = [i \in 1..kept |-> n - kept + i]

\* 102 values were recorded: the window holds the values 3 to 102
C27_Witness ==
    /\ nOps = 102
    /\ Len(latencyMetrics.pizzaLatencies) = 100
    /\ latencyMetrics.pizzaLatencies[1] = 3
    /\ latencyMetrics.pizzaLatencies[100] = 102
    /\ cycles = <<>>

\* C28: active_users of a snapshot is the number of entries of the registry
\* whose last activity is within five minutes of the timestamp of the snapshot.
\* It is read after the sweep: it counts no entry older than five minutes and
\* omits none of the others.
C28_ActiveUsersCountsUnexpired ==
    [][SnapshotStep =>
          LET m == cycles'[Len(cycles')].metrics
          IN  m.active_users =
                 Cardinality({u \in DOMAIN activeUsers :
                                 m.timestamp - activeUsers[u] <= 300000})]_vars

\* a snapshot that found two entries, expired one and counted the other
C28_Witness ==
    \E c \in 1..Len(cycles) :
        /\ Cardinality(cycles[c].expired) = 1
        /\ cycles[c].metrics.active_users = 1

\* C29: in every snapshot http_requests_total is at least the sum of the four
\* per-method metrics, and equal to it exactly when no request with another
\* method was recorded since the last reset.
C29_TotalCoversMethods ==
    \A c \in 1..Len(cycles) :
        LET m == cycles[c].metrics
            known == m.http_requests_get + m.http_requests_post
                     + m.http_requests_put + m.http_requests_delete
        IN  /\ m.http_requests_total >= known
            /\ m.http_requests_total = known <=> cycles[c].seen["PATCH"] = 0

\* a snapshot taken after a GET and a PATCH request: total 2, per-method sum 1
C29_Witness ==
    \E c \in 1..Len(cycles) :
        /\ cycles[c].metrics.http_requests_total = 2
        /\ cycles[c].metrics.http_requests_get = 1
        /\ cycles[c].seen["PATCH"] = 1

\* C30: every cycle that starts eventually finishes, whichever way its delivery
\* call completes (2xx, non-2xx, rejected fetch, exception while encoding),
\* provided the delivery call completes.
C30_CycleTerminates ==
    \A c \in 1..MaxCycles :
        (Len(cycles) >= c) ~> (Len(cycles) >= c /\ cycles[c].pc = "done")

\* two cycles have finished, one after an exception while encoding, one after a
\* rejected fetch, and the reporter is idle
C30_Witness ==
    /\ Len(cycles) = 2
    /\ cycles[1].outcome = "encodeError"
    /\ cycles[2].outcome = "neterr"
    /\ InFlight = {}

====
